---- MODULE Spec2Model ----
(***************************************************************************)
(* G-Shock database viewer (src/main.py): three cascading listboxes        *)
(* (series -> subseries -> model) over a catalog loaded once from CSV, and *)
(* an image side path: display_image starts a worker thread that runs      *)
(* show_image / fetch_image against a shared image cache and then draws    *)
(* onto the canvas.                                                        *)
(*                                                                         *)
(* Spec       the interactive session: the three <<ListboxSelect>>         *)
(*            handlers, each one atomic step of the Tk main loop, and the  *)
(*            worker threads, one step per shared-state access.            *)
(* SpecIndex  the catalog queries of the handlers as pure functions, over  *)
(*            every catalog of at most MaxRecords rows.                    *)
(* SpecFit    the size computation of fetch_image, in the floating-point   *)
(*            arithmetic the code uses, over images and canvases of        *)
(*            bounded size.                                                *)
(* SpecCrawl  the crawl loop of shockbase_scraper.main over sites of       *)
(*            bounded size, every request failing or not.                  *)
(* SpecName   extract_year_and_clean_name over watch names put together    *)
(*            from a few pieces.                                           *)
(***************************************************************************)
EXTENDS Integers, Sequences, FiniteSets, TLC

VARIABLES
    csv,                    \* shockbase.csv: the rows as written in the file
    df,                     \* main.py:275-278  the loaded catalog (Year coerced)
    selected_series_global, \* main.py:281      the one-slot list [None]
    series_items,           \* series_listbox: its items
    series_cur,             \* series_listbox.curselection(), a tuple: {} or {i}
    subseries_items,        \* subseries_listbox
    subseries_cur,
    models_items,           \* models_listbox
    models_cur,
    canvas,                 \* image_canvas: the items drawn on it, in order
    canvas_image,           \* image_canvas.image (the kept reference)
    status_left,            \* status_left_label text
    status_right,           \* status_right_label text
    image_cache,            \* main.py:284      image_url -> tk_image
    workers,                \* the threads started by display_image
    last_event,             \* ghost: the last <<ListboxSelect>> event: its handler, and
                            \* whether it arrived with a selection
    q                       \* SpecIndex: the last catalog query and its result;
                            \* SpecFit, SpecCrawl, SpecName: the state of the
                            \* function or of the crawler under study

vars == <<csv, df, selected_series_global, series_items, series_cur, subseries_items,
          subseries_cur, models_items, models_cur, canvas, canvas_image,
          status_left, status_right, image_cache, workers, last_event, q>>

\* Everything the program itself holds (no ghosts).
progVars == <<df, selected_series_global, series_items, series_cur, subseries_items,
              subseries_cur, models_items, models_cur, canvas, canvas_image,
              status_left, status_right, image_cache, workers>>

(***************************************************************************)
(* Bounds and universes                                                    *)
(***************************************************************************)
MaxRecords == 3     \* SpecIndex: rows per catalog
MaxWorkers == 2     \* Spec: threads started in one session
MaxDim == 9         \* SpecFit: image and box width and height
MaxLinks == 2       \* SpecCrawl: links on the main page and on a series page
MaxParts == 3       \* SpecName: pieces a watch name is put together from

SeriesNames == {"A", "B"}
SubseriesNames == {"X", "Y"}
ModelNames == {"M1", "M2"}

\* A CSV Year cell: blank, or a number.  {} is the blank cell (NaN).
Blank == {}

None == "None"

Row(s, ss, m, y, u) == [series |-> s, subseries |-> ss, model |-> m, year |-> y, url |-> u]

\* CSV rows over the universes; year and url vary together to keep the set small.
RawRows ==
    { Row(s, ss, m, yu[1], yu[2]) :
        s \in SeriesNames, ss \in SubseriesNames, m \in ModelNames,
        yu \in {<<Blank, "u1">>, <<{2001}, "u2">>} }

RawCatalogs == UNION { [1..n -> RawRows] : n \in 1..MaxRecords }

\* The catalogs of the interactive sessions: the end-to-end example of the
\* specification, a catalog where one model name occurs under two series, and
\* one with a repeated row and an image url shared by two models.
SessionCatalogs ==
    { << Row("A", "X", "M1", {2001}, "u1"),
         Row("A", "Y", "M2", Blank,  "u2"),
         Row("B", "X", "M3", {1999}, "u3") >>,
      << Row("A", "X", "M1", {2001}, "u1"),
         Row("B", "X", "M1", Blank,  "u2") >>,
      << Row("A", "X", "M1", Blank,  "u1"),
         Row("A", "X", "M1", Blank,  "u1"),
         Row("A", "X", "M2", {2001}, "u1") >> }

(***************************************************************************)
(* pandas / tkinter helpers                                                *)
(***************************************************************************)
\* df["Year"].fillna(0).astype(int)
CoerceYear(y) == IF y = Blank THEN 0 ELSE CHOOSE v \in y : TRUE

LoadCatalog(raw) ==
    [i \in 1..Len(raw) |-> [raw[i] EXCEPT !.year = CoerceYear(raw[i].year)]]

\* Series.unique(): the distinct values in order of first appearance.
Unique(s) ==
    LET F[i \in 0..Len(s)] ==
            IF i = 0 THEN <<>>
            ELSE IF \E j \in 1..(i - 1) : s[j] = s[i] THEN F[i - 1]
            ELSE Append(F[i - 1], s[i])
    IN F[Len(s)]

\* Mutant: the series filter is lost.
ListSubseries_Unfiltered(d, selected_series) ==
    Unique([i \in 1..Len(d) |-> d[i].subseries])

\* df[df["Series"] == selected_series]["Subseries"].unique()
ListSubseries(d, selected_series) ==
    LET rows == SelectSeq(d, LAMBDA r : r.series = selected_series)
    IN Unique([i \in 1..Len(rows) |-> rows[i].subseries])

\* Mutant: the rows are filtered by subseries alone.
ListModels_SubseriesOnly(d, selected_series, selected_subseries) ==
    LET filtered_df == SelectSeq(d, LAMBDA r : r.subseries = selected_subseries)
    IN Unique([i \in 1..Len(filtered_df) |-> filtered_df[i].model])

\* df[(Series == s) & (Subseries == ss)]["Watch Model"].unique()
ListModels(d, selected_series, selected_subseries) ==
    LET filtered_df == SelectSeq(d, LAMBDA r : r.series = selected_series
                                              /\ r.subseries = selected_subseries)
    IN Unique([i \in 1..Len(filtered_df) |-> filtered_df[i].model])

\* df["Series"].unique()
ListSeries(d) == Unique([i \in 1..Len(d) |-> d[i].series])

\* Mutant: .values[-1], the last matching row.
ResolveModel_Last(d, selected_model) ==
    LET rows == SelectSeq(d, LAMBDA r : r.model = selected_model)
    IN rows[Len(rows)]

\* Mutant: the year is read from the last matching row.
ResolveModel_YearOfLast(d, selected_model) ==
    LET rows == SelectSeq(d, LAMBDA r : r.model = selected_model)
    IN [rows[1] EXCEPT !.year = rows[Len(rows)].year]

\* df[df["Watch Model"] == selected_model][...].values[0]
ResolveModel(d, selected_model) ==
    SelectSeq(d, LAMBDA r : r.model = selected_model)[1]

\* listbox.get(listbox.curselection()) for a one-element selection.
ListboxGet(items, selection) == items[CHOOSE i \in selection : TRUE]

NoText == <<>>
YearText(y) == <<y>>
CountText(n, unit) == [n |-> n, unit |-> unit]

NoImage == [ref |-> None, by |-> 0]
NoSelection == [series |-> None, subseries |-> None, model |-> None]
\* gets is a ghost: the requests.get calls this fetch_image call has issued.
IdleWorker == [pc |-> "idle", url |-> None, img |-> NoImage, gets |-> 0,
               origin |-> NoSelection]

EndedWorker == [IdleWorker EXCEPT !.pc = "ended"]

CatalogUrls(d) == { d[i].url : i \in 1..Len(d) }

\* ghost: what the three listboxes currently select.
CurrentSelection ==
    [series |-> selected_series_global,
     subseries |-> IF subseries_cur = {} THEN None
                   ELSE ListboxGet(subseries_items, subseries_cur),
     model |-> IF models_cur = {} THEN None
               ELSE ListboxGet(models_items, models_cur)]

(***************************************************************************)
(* Init: main() and setup_ui()                                             *)
(***************************************************************************)
InitFrame(raw) ==
    /\ csv = raw
    /\ df = LoadCatalog(raw)
    /\ selected_series_global = None
    /\ series_items = ListSeries(LoadCatalog(raw))
    /\ series_cur = {}
    /\ subseries_items = <<>>
    /\ subseries_cur = {}
    /\ models_items = <<>>
    /\ models_cur = {}
    /\ canvas = <<>>
    /\ canvas_image = NoImage
    /\ status_left = CountText(0, "Select a series...")
    /\ status_right = NoText
    /\ image_cache = [u \in CatalogUrls(raw) |-> NoImage]
    /\ workers = [w \in 1..MaxWorkers |-> IdleWorker]
    /\ last_event = [handler |-> "none", selected |-> FALSE]

InitUI(raw) ==
    /\ InitFrame(raw)
    /\ q = [op |-> "none"]

Init == \E raw \in SessionCatalogs : InitUI(raw)

(***************************************************************************)
(* The handlers (UI thread)                                                *)
(***************************************************************************)
\* Mutant: lines 48-49 are missing, the models listbox is not cleared.
update_subseries_KeepModels(series_selection) ==
    IF series_selection # {}
    THEN LET selected_series == ListboxGet(series_items, series_selection)
             subseries == ListSubseries(df, selected_series)
         IN /\ selected_series_global' = selected_series
            /\ subseries_items' = subseries
            /\ subseries_cur' = {}
            /\ canvas' = <<>>
            /\ status_left' = CountText(Len(subseries), "subseries.")
            /\ status_right' = NoText
            /\ UNCHANGED <<models_items, models_cur, canvas_image, image_cache, workers>>
    ELSE UNCHANGED <<selected_series_global, subseries_items, subseries_cur,
                     models_items, models_cur, canvas, canvas_image, status_left,
                     status_right, image_cache, workers>>

\* Mutant: no guard on the selection; series_listbox.get(tk.ACTIVE) names the
\* active item, the first one while nothing was ever selected.
update_subseries_Active(series_selection) ==
    LET selected_series == IF series_selection # {}
                           THEN ListboxGet(series_items, series_selection)
                           ELSE series_items[1]
        subseries == ListSubseries(df, selected_series)
    IN /\ selected_series_global' = selected_series
       /\ subseries_items' = subseries
       /\ subseries_cur' = {}
       /\ models_items' = <<>>
       /\ models_cur' = {}
       /\ canvas' = <<>>
       /\ status_left' = CountText(Len(subseries), "subseries.")
       /\ status_right' = NoText
       /\ UNCHANGED <<canvas_image, image_cache, workers>>

update_subseries(series_selection) ==
    IF series_selection # {}
    THEN LET selected_series == ListboxGet(series_items, series_selection)
             subseries == ListSubseries(df, selected_series)
         IN /\ selected_series_global' = selected_series
            /\ subseries_items' = subseries
            /\ subseries_cur' = {}
            /\ models_items' = <<>>
            /\ models_cur' = {}
            /\ canvas' = <<>>
            /\ status_left' = CountText(Len(subseries), "subseries.")
            /\ status_right' = NoText
            /\ UNCHANGED <<canvas_image, image_cache, workers>>
    ELSE UNCHANGED <<selected_series_global, subseries_items, subseries_cur,
                     models_items, models_cur, canvas, canvas_image, status_left,
                     status_right, image_cache, workers>>

\* Mutant: line 83 is missing, the models are added to those listed before.
update_models_NoClear(subseries_selection) ==
    IF subseries_selection # {} /\ selected_series_global # None
    THEN LET selected_subseries == ListboxGet(subseries_items, subseries_selection)
             models == ListModels(df, selected_series_global, selected_subseries)
         IN /\ models_items' = models_items \o models
            /\ models_cur' = {}
            /\ status_left' = CountText(Len(models), "models.")
            /\ status_right' = NoText
            /\ UNCHANGED <<selected_series_global, series_cur, subseries_items,
                           canvas, canvas_image, image_cache, workers>>
    ELSE UNCHANGED <<selected_series_global, series_cur, subseries_items,
                     models_items, models_cur, canvas, canvas_image, status_left,
                     status_right, image_cache, workers>>

update_models(subseries_selection) ==
    IF subseries_selection # {} /\ selected_series_global # None
    THEN LET selected_subseries == ListboxGet(subseries_items, subseries_selection)
             models == ListModels(df, selected_series_global, selected_subseries)
         IN /\ models_items' = models
            /\ models_cur' = {}
            /\ status_left' = CountText(Len(models), "models.")
            /\ status_right' = NoText
            /\ UNCHANGED <<selected_series_global, series_cur, subseries_items,
                           canvas, canvas_image, image_cache, workers>>
    ELSE UNCHANGED <<selected_series_global, series_cur, subseries_items,
                     models_items, models_cur, canvas, canvas_image, status_left,
                     status_right, image_cache, workers>>

\* threading.Thread(target=show_image).start(): the next unused thread slot.
FreeWorker == CHOOSE w \in 1..MaxWorkers :
                 /\ workers[w].pc = "idle"
                 /\ \A v \in 1..(w - 1) : workers[v].pc # "idle"

\* Mutant: line 166 is missing, the year is not written by the handler.
display_image_NoYear(model_selection) ==
    IF model_selection # {}
    THEN LET selected_model == ListboxGet(models_items, model_selection)
             image_url == ResolveModel(df, selected_model).url
         IN /\ \E w \in 1..MaxWorkers : workers[w].pc = "idle"
            /\ workers' = [workers EXCEPT ![FreeWorker] =
                              [pc |-> "check", url |-> image_url, img |-> NoImage, gets |-> 0,
                               origin |-> [CurrentSelection EXCEPT !.model = selected_model]]]
            /\ UNCHANGED <<selected_series_global, series_cur, subseries_items,
                           subseries_cur, models_items, canvas, canvas_image,
                           status_left, status_right, image_cache>>
    ELSE UNCHANGED <<selected_series_global, series_cur, subseries_items,
                     subseries_cur, models_items, models_cur, canvas, canvas_image,
                     status_left, status_right, image_cache, workers>>

display_image(model_selection) ==
    IF model_selection # {}
    THEN LET selected_model == ListboxGet(models_items, model_selection)
             image_url == ResolveModel(df, selected_model).url
             model_year == ResolveModel(df, selected_model).year
         IN /\ \E w \in 1..MaxWorkers : workers[w].pc = "idle"
            /\ workers' = [workers EXCEPT ![FreeWorker] =
                              [pc |-> "check", url |-> image_url, img |-> NoImage, gets |-> 0,
                               origin |-> [CurrentSelection EXCEPT !.model = selected_model]]]
            /\ status_right' = YearText(model_year)
            /\ UNCHANGED <<selected_series_global, series_cur, subseries_items,
                           subseries_cur, models_items, canvas, canvas_image,
                           status_left, image_cache>>
    ELSE UNCHANGED <<selected_series_global, series_cur, subseries_items,
                     subseries_cur, models_items, models_cur, canvas, canvas_image,
                     status_left, status_right, image_cache, workers>>

\* The selections a <<ListboxSelect>> event can arrive with: a click selects one
\* item; with nothing selected (an empty listbox, say) the event arrives empty.
EventSelections(items, cur) ==
    { {i} : i \in 1..Len(items) } \cup (IF cur = {} THEN {{}} ELSE {})

SeriesEvent(sel) ==
    /\ series_cur' = sel
    /\ update_subseries(sel)
    /\ last_event' = [handler |-> "update_subseries", selected |-> sel # {}]
    /\ UNCHANGED <<csv, df, series_items, q>>

SubseriesEvent(sel) ==
    /\ subseries_cur' = sel
    /\ update_models(sel)
    /\ last_event' = [handler |-> "update_models", selected |-> sel # {}]
    /\ UNCHANGED <<csv, df, series_items, q>>

ModelEvent(sel) ==
    /\ models_cur' = sel
    /\ display_image(sel)
    /\ last_event' = [handler |-> "display_image", selected |-> sel # {}]
    /\ UNCHANGED <<csv, df, series_items, q>>

(***************************************************************************)
(* show_image on a worker thread.  One step per access to shared state;    *)
(* MaxWorkers bounds the threads one session starts, and a thread that     *)
(* ends (returns or dies of an exception) leaves nothing but "ended".      *)
(***************************************************************************)
uiVars == <<csv, df, selected_series_global, series_items, series_cur, subseries_items,
            subseries_cur, models_items, models_cur, status_left, status_right,
            last_event, q>>

\* Mutant: the cache is not consulted.
FetchCheck_NoLookup(w) ==
    /\ workers[w].pc = "check"
    /\ workers' = [workers EXCEPT ![w].pc = "get"]
    /\ UNCHANGED <<uiVars, canvas, canvas_image, image_cache>>

\* fetch_image, the cache lookup: a hit returns the cached image
FetchCheck(w) ==
    /\ workers[w].pc = "check"
    /\ IF image_cache[workers[w].url] # NoImage
       THEN workers' = [workers EXCEPT ![w].pc = "delete",
                                       ![w].img = image_cache[workers[w].url]]
       ELSE workers' = [workers EXCEPT ![w].pc = "get"]
    /\ UNCHANGED <<uiVars, canvas, canvas_image, image_cache>>

\* requests.get, Image.open, resize, ImageTk.PhotoImage: a new image object
FetchGet(w) ==
    /\ workers[w].pc = "get"
    /\ workers' = [workers EXCEPT ![w].pc = "store",
                                  ![w].gets = @ + 1,
                                  ![w].img = [ref |-> workers[w].url, by |-> w]]
    /\ UNCHANGED <<uiVars, canvas, canvas_image, image_cache>>

\* Mutant: a failed fetch starts fetch_image again.
FetchFail_Retry(w) ==
    /\ workers[w].pc = "get"
    /\ workers' = [workers EXCEPT ![w].pc = "check"]
    /\ UNCHANGED <<uiVars, canvas, canvas_image, image_cache>>

\* requests.get or Image.open raises: the exception ends the thread
FetchFail(w) ==
    /\ workers[w].pc = "get"
    /\ workers' = [workers EXCEPT ![w] = EndedWorker]
    /\ UNCHANGED <<uiVars, canvas, canvas_image, image_cache>>

\* Mutant: the cache keeps the last image only.
FetchStore_Evicting(w) ==
    /\ workers[w].pc = "store"
    /\ image_cache' = [u \in DOMAIN image_cache |->
                          IF u = workers[w].url THEN workers[w].img ELSE NoImage]
    /\ workers' = [workers EXCEPT ![w].pc = "delete"]
    /\ UNCHANGED <<uiVars, canvas, canvas_image>>

\* image_cache[image_url] = tk_image
FetchStore(w) ==
    /\ workers[w].pc = "store"
    /\ image_cache' = [image_cache EXCEPT ![workers[w].url] = workers[w].img]
    /\ workers' = [workers EXCEPT ![w].pc = "delete"]
    /\ UNCHANGED <<uiVars, canvas, canvas_image>>

\* image_canvas.delete("all")
ShowDelete(w) ==
    /\ workers[w].pc = "delete"
    /\ canvas' = <<>>
    /\ workers' = [workers EXCEPT ![w].pc = "create"]
    /\ UNCHANGED <<uiVars, canvas_image, image_cache>>

\* image_canvas.create_image(..., image=tk_image)
ShowCreate(w) ==
    /\ workers[w].pc = "create"
    /\ canvas' = Append(canvas, workers[w].img)
    /\ workers' = [workers EXCEPT ![w].pc = "keep"]
    /\ UNCHANGED <<uiVars, canvas_image, image_cache>>

\* image_canvas.image = tk_image, and show_image returns
ShowKeep(w) ==
    /\ workers[w].pc = "keep"
    /\ canvas_image' = workers[w].img
    /\ workers' = [workers EXCEPT ![w] = EndedWorker]
    /\ UNCHANGED <<uiVars, canvas, image_cache>>

Next ==
    \/ \E sel \in EventSelections(series_items, series_cur) : SeriesEvent(sel)
    \/ \E sel \in EventSelections(subseries_items, subseries_cur) : SubseriesEvent(sel)
    \/ \E sel \in EventSelections(models_items, models_cur) : ModelEvent(sel)
    \/ \E w \in 1..MaxWorkers : FetchCheck(w)
    \/ \E w \in 1..MaxWorkers : FetchGet(w)
    \/ \E w \in 1..MaxWorkers : FetchFail(w)
    \/ \E w \in 1..MaxWorkers : FetchStore(w)
    \/ \E w \in 1..MaxWorkers : ShowDelete(w)
    \/ \E w \in 1..MaxWorkers : ShowCreate(w)
    \/ \E w \in 1..MaxWorkers : ShowKeep(w)

Spec == Init /\ [][Next]_vars

(***************************************************************************)
(* SpecIndex: the catalog queries on their own, for every catalog          *)
(***************************************************************************)
InitIndex == \E raw \in RawCatalogs : InitUI(raw)

indexFrame == <<csv, df, selected_series_global, series_items, series_cur, subseries_items,
                subseries_cur, models_items, models_cur, canvas, canvas_image,
                status_left, status_right, image_cache, workers, last_event>>

\* main.py:42 for an arbitrary series name
QuerySubseries(s) ==
    /\ q' = [op |-> "list_subseries", series |-> s, subseries |-> None,
             result |-> ListSubseries(df, s)]
    /\ UNCHANGED indexFrame

\* main.py:77-80 for an arbitrary (series, subseries)
QueryModels(s, ss) ==
    /\ q' = [op |-> "list_models", series |-> s, subseries |-> ss,
             result |-> ListModels(df, s, ss)]
    /\ UNCHANGED indexFrame

NextIndex ==
    \/ \E s \in SeriesNames : QuerySubseries(s)
    \/ \E s \in SeriesNames, ss \in SubseriesNames : QueryModels(s, ss)

SpecIndex == InitIndex /\ [][NextIndex]_vars

(***************************************************************************)
(* fetch_image, lines 107-120: the size of the resized image.              *)
(*                                                                         *)
(* img.width / img.height, max_width / img_ratio and max_height *          *)
(* img_ratio are Python floats: IEEE-754 doubles, every operation rounded  *)
(* to the nearest double (ties to even).  For operands below 2^26 the      *)
(* roundings are computed here exactly, in small integers:                 *)
(*   img_ratio = m / 2^k with m = round(w * 2^k / h), 2^52 <= m <= 2^53,   *)
(*   so m * h = w * 2^k + e with |e| < h / 2 (RatioErr);                   *)
(*   a product H * img_ratio or a quotient W / img_ratio whose exact value *)
(*   H*w/h or W*h/w is no integer lies further from every integer than     *)
(*   the roundings move it, so int() of it is the floor of the exact       *)
(*   value; when the exact value is an integer n, the float result is n    *)
(*   or the double just below n, depending on the sign and size of e.      *)
(***************************************************************************)
image_padding == 10
DoubleBits == 53

\* a * 2^i <= b, for any integer i
ShiftLe(a, i, b) == IF i >= 0 THEN a * 2^i <= b ELSE a <= b * 2^(0 - i)

RECURSIVE Log2Up(_, _, _)
Log2Up(a, b, l) == IF b * 2^(l + 1) <= a THEN Log2Up(a, b, l + 1) ELSE l
RECURSIVE Log2Down(_, _, _)
Log2Down(a, b, j) == IF a * 2^j >= b THEN j ELSE Log2Down(a, b, j + 1)

\* the binary exponent of a / b:  2^L <= a / b < 2^(L + 1)
FloorLog2(a, b) == IF a >= b THEN Log2Up(a, b, 0) ELSE 0 - Log2Down(a, b, 1)

RECURSIVE PowMod2(_, _)
PowMod2(k, h) == IF k = 0 THEN 1 % h ELSE (2 * PowMod2(k - 1, h)) % h

\* e = m * h - w * 2^k for img_ratio = m / 2^k: negative when w / h was rounded
\* down, positive when it was rounded up, 0 when w / h is a double.
RatioErr(w, h) ==
    LET k == (DoubleBits - 1) - FloorLog2(w, h)
        rho == (w * PowMod2(k, h)) % h
    IN IF 2 * rho < h THEN 0 - rho ELSE h - rho

\* the doubles just below an integer n are 2^(E - 52) apart (2^(E - 53) when n
\* is a power of two), E the binary exponent of n: this is E less that halving.
GapExp(n) == LET E == FloorLog2(n, 1) IN IF n = 2^E THEN E - 1 ELSE E

\* int(max_height * img_ratio)
IntOfProduct(H, w, h) ==
    IF (H * w) % h # 0 THEN (H * w) \div h
    ELSE LET n == (H * w) \div h
             e == RatioErr(w, h)
         IN IF e >= 0 THEN n
            ELSE IF ShiftLe(H * (0 - e), FloorLog2(w, h) + 1 - GapExp(n), h)
                 THEN n ELSE n - 1

\* int(max_width / img_ratio)
IntOfQuotient(W, w, h) ==
    IF (W * h) % w # 0 THEN (W * h) \div w
    ELSE LET n == (W * h) \div w
             e == RatioErr(w, h)
         IN IF e <= 0 THEN n
            ELSE IF ShiftLe(W * e * h, FloorLog2(w, h) + 1 - GapExp(n), w * w)
                 THEN n ELSE n - 1

\* img.width / max_width > img.height / max_height: two correctly rounded
\* quotients of integers below 2^26 compare as the exact quotients do.
WidthLimited(w, h, max_width, max_height) == w * max_height > h * max_width

\* (new_width, new_height) for an image w x h on a canvas canvas_w x canvas_h
NewSize(w, h, canvas_w, canvas_h) ==
    LET max_width == canvas_w - 2 * image_padding
        max_height == canvas_h - 2 * image_padding
    IN IF WidthLimited(w, h, max_width, max_height)
       THEN [width |-> max_width, height |-> IntOfQuotient(max_width, w, h)]
       ELSE [width |-> IntOfProduct(max_height, w, h), height |-> max_height]

(***************************************************************************)
(* SpecFit: the size computation on its own                                *)
(***************************************************************************)
\* image sizes and boxes (the canvas less its padding): everything up to
\* MaxDim, and the examples of the specification.
ImageSizes == ((1..MaxDim) \X (1..MaxDim)) \cup {<<800, 400>>, <<400, 800>>, <<25, 11>>}
Boxes == ((1..MaxDim) \X (1..MaxDim)) \cup {<<200, 200>>}

\* a worker has decoded an image (line 105) in front of a canvas of some size
InitFit ==
    /\ \E raw \in { c \in SessionCatalogs : Len(c) = 2 } : InitFrame(raw)
    /\ \E img \in ImageSizes, box \in Boxes :
          q = [op |-> "image", w |-> img[1], h |-> img[2],
               canvas_w |-> box[1] + 2 * image_padding,
               canvas_h |-> box[2] + 2 * image_padding,
               size |-> None]

\* fetch_image's lines 107-120 for that image and that canvas
Fit ==
    /\ q.op = "image"
    /\ q' = [q EXCEPT !.op = "fit",
                      !.size = NewSize(q.w, q.h, q.canvas_w, q.canvas_h)]
    /\ UNCHANGED indexFrame

NextFit == Fit

SpecFit == InitFit /\ [][NextFit]_vars

(***************************************************************************)
(* SpecCrawl: shockbase_scraper.main()                                     *)
(*                                                                         *)
(* A site is what the pages hold: site[i] is series page i, site[i][j] its *)
(* subseries page j, a number of figures.  Page <<i>> is series page i,    *)
(* page <<i, j>> subseries page j of series i.  get_soup returns None for  *)
(* a request that raised a RequestException and a soup (always true in a   *)
(* condition, whatever the page holds) otherwise.                          *)
(***************************************************************************)
\* the figures of subseries page j of series i: none, one or two
Figures(i, j) == (i + j) % 3

\* the subseries links on each series page of a site
Shapes == UNION { [1..n -> 0..MaxLinks] : n \in 0..MaxLinks }

Site(shape) == [i \in DOMAIN shape |-> [j \in 1..shape[i] |-> Figures(i, j)]]

\* parse_subseries_page: one row per figure, in page order
parse_subseries_page(site, i, j) ==
    [k \in 1..site[i][j] |-> [series |-> i, subseries |-> j, figure |-> k]]

\* the next iteration of the loops of lines 152 and 160 after subseries page
\* j of series i (j = 0: after the series page itself)
NextPage(site, i, j) ==
    IF i >= 1 /\ i <= Len(site) /\ j < Len(site[i])
    THEN [pc |-> "subseries", i |-> i, j |-> j + 1]
    ELSE IF i < Len(site) THEN [pc |-> "series", i |-> i + 1, j |-> 0]
         ELSE [pc |-> "save", i |-> i, j |-> 0]

\* main() is about to request the main page
InitCrawl ==
    /\ \E raw \in { c \in SessionCatalogs : Len(c) = 2 } : InitFrame(raw)
    /\ \E shape \in Shapes :
          q = [op |-> "crawl", site |-> Site(shape), pc |-> "main", i |-> 0, j |-> 0,
               series_data |-> <<>>, requested |-> <<>>, retrieved |-> {},
               csv |-> None]

\* line 145-149, 174-175: the main page
GetMainPage(ok) ==
    /\ q.pc = "main"
    /\ q' = IF ok
            THEN LET n == IF Len(q.site) = 0 THEN [pc |-> "save", i |-> 0, j |-> 0]
                          ELSE [pc |-> "series", i |-> 1, j |-> 0]
                 IN [q EXCEPT !.pc = n.pc, !.i = n.i]
            ELSE [q EXCEPT !.pc = "failed"]
    /\ UNCHANGED indexFrame

\* Mutant: a series page that fails ends the crawl (break).
GetSeriesPage_Abort(ok) ==
    /\ q.pc = "series"
    /\ LET n == IF ok THEN NextPage(q.site, q.i, 0)
                ELSE [pc |-> "save", i |-> q.i, j |-> 0]
       IN q' = [q EXCEPT !.pc = n.pc, !.i = n.i, !.j = n.j,
                         !.requested = Append(@, <<q.i>>),
                         !.retrieved = IF ok THEN @ \cup {<<q.i>>} ELSE @]
    /\ UNCHANGED indexFrame

\* lines 152-158: series page i
GetSeriesPage(ok) ==
    /\ q.pc = "series"
    /\ LET n == IF ok THEN NextPage(q.site, q.i, 0)
                ELSE NextPage(q.site, q.i, Len(q.site[q.i]))
       IN q' = [q EXCEPT !.pc = n.pc, !.i = n.i, !.j = n.j,
                         !.requested = Append(@, <<q.i>>),
                         !.retrieved = IF ok THEN @ \cup {<<q.i>>} ELSE @]
    /\ UNCHANGED indexFrame

\* lines 160-166: subseries page j of series i
GetSubseriesPage(ok) ==
    /\ q.pc = "subseries"
    /\ LET n == NextPage(q.site, q.i, q.j)
       IN q' = [q EXCEPT !.pc = n.pc, !.i = n.i, !.j = n.j,
                         !.requested = Append(@, <<q.i, q.j>>),
                         !.retrieved = IF ok THEN @ \cup {<<q.i, q.j>>} ELSE @,
                         !.series_data =
                             IF ok THEN @ \o parse_subseries_page(q.site, q.i, q.j)
                             ELSE @]
    /\ UNCHANGED indexFrame

\* lines 168-173: the dataset is written
SaveCsv ==
    /\ q.pc = "save"
    /\ q' = [q EXCEPT !.pc = "done", !.csv = q.series_data]
    /\ UNCHANGED indexFrame

NextCrawl ==
    \/ \E ok \in BOOLEAN : GetMainPage(ok)
    \/ \E ok \in BOOLEAN : GetSeriesPage(ok)
    \/ \E ok \in BOOLEAN : GetSubseriesPage(ok)
    \/ SaveCsv

SpecCrawl == InitCrawl /\ [][NextCrawl]_vars

(***************************************************************************)
(* SpecName: extract_year_and_clean_name()                                 *)
(*                                                                         *)
(* A string is the sequence of its characters.                             *)
(***************************************************************************)
Digits == {"0", "1", "2", "3", "4", "5", "6", "7", "8", "9"}
Whitespace == {" ", "\t", "\n"}

\* r"\((\d{4})\)" matches at position p
MatchAt(name, p) ==
    /\ p + 5 <= Len(name)
    /\ name[p] = "("
    /\ \A k \in 1..4 : name[p + k] \in Digits
    /\ name[p + 5] = ")"

\* Mutant: the last match is taken.
re_search_Last(name) ==
    LET hits == { p \in 1..Len(name) : MatchAt(name, p) }
    IN IF hits = {} THEN 0 ELSE CHOOSE p \in hits : \A o \in hits : o <= p

\* re.search: the start of the leftmost match, 0 for None
re_search(name) ==
    LET hits == { p \in 1..Len(name) : MatchAt(name, p) }
    IN IF hits = {} THEN 0 ELSE CHOOSE p \in hits : \A o \in hits : p <= o

RECURSIVE lstrip(_)
lstrip(str) ==
    IF str # <<>> /\ Head(str) \in Whitespace THEN lstrip(Tail(str)) ELSE str
RECURSIVE rstrip(_)
rstrip(str) ==
    IF str # <<>> /\ str[Len(str)] \in Whitespace
    THEN rstrip(SubSeq(str, 1, Len(str) - 1)) ELSE str
strip(str) == rstrip(lstrip(str))

extract_year_and_clean_name(watch_name) ==
    LET match == re_search(watch_name)
    IN IF match # 0
       THEN [cleaned_name |-> strip(SubSeq(watch_name, 1, match - 1)),
             year |-> SubSeq(watch_name, match + 1, match + 4)]
       ELSE [cleaned_name |-> strip(watch_name), year |-> <<>>]

\* the pieces watch names are put together from
Pieces ==
    { <<"G", "A", " ">>, <<" ">>, <<"(">>, <<")">>, <<"7">>,
      <<"(", "2", "0", "1", "2", ")">>, <<"(", "1", "9", "9", "9", ")">>,
      <<"(", "2", "0", "1", ")">>, <<"(", "2", "0", "1", "2", "0", ")">>,
      <<"(", "2", "0", "A", "2", ")">> }

RECURSIVE Join(_)
Join(parts) == IF parts = <<>> THEN <<>> ELSE Head(parts) \o Join(Tail(parts))

GA100 == <<"G", "A", "-", "1", "0", "0", " ", "(", "2", "0", "1", "2", ")">>
DW5600 == <<"D", "W", "-", "5", "6", "0", "0">>

WatchNames ==
    { Join(parts) : parts \in UNION { [1..n -> Pieces] : n \in 0..MaxParts } }
        \cup {GA100, DW5600}

\* parse_subseries_page has read a caption
InitName ==
    /\ \E raw \in { c \in SessionCatalogs : Len(c) = 2 } : InitFrame(raw)
    /\ \E name \in WatchNames :
          q = [op |-> "caption", watch_name |-> name, cleaned_name |-> None,
               year |-> None]

\* line 127: the call
ExtractYear ==
    /\ q.op = "caption"
    /\ LET r == extract_year_and_clean_name(q.watch_name)
       IN q' = [q EXCEPT !.op = "extracted", !.cleaned_name = r.cleaned_name,
                         !.year = r.year]
    /\ UNCHANGED indexFrame

NextName == ExtractYear

SpecName == InitName /\ [][NextName]_vars

(***************************************************************************)
(* Steps, named for the properties below                                   *)
(***************************************************************************)
\* A <<ListboxSelect>> event that arrives with an item selected.
SeriesChosen ==
    \E sel \in EventSelections(series_items, series_cur) : sel # {} /\ SeriesEvent(sel)
SubseriesChosen ==
    \E sel \in EventSelections(subseries_items, subseries_cur) :
        sel # {} /\ SubseriesEvent(sel)
ModelChosen ==
    \E sel \in EventSelections(models_items, models_cur) : sel # {} /\ ModelEvent(sel)

\* A <<ListboxSelect>> event that arrives with nothing selected.
EmptyEvent == SeriesEvent({}) \/ SubseriesEvent({}) \/ ModelEvent({})

\* Thread w executes a statement of show_image / fetch_image in this step.
WorkerRan(w) == workers[w].pc \notin {"idle", "ended"} /\ workers'[w] # workers[w]

Rows == 1..Len(df)
Range(seq) == { seq[i] : i \in 1..Len(seq) }
NoDuplicates(seq) == \A i, j \in 1..Len(seq) : seq[i] = seq[j] => i = j

(***************************************************************************)
(* C1  In every state the subseries options are exactly the subseries of   *)
(* the stored series and every model option is a model of that series; a   *)
(* series choice replaces the subseries options and empties the model      *)
(* options in the same handler step.                                       *)
(***************************************************************************)
C1_OptionsOfSeries ==
    /\ Range(subseries_items) =
           { df[k].subseries : k \in { r \in Rows : df[r].series = selected_series_global } }
    /\ \A i \in 1..Len(models_items) :
           \E k \in Rows : /\ df[k].series = selected_series_global
                           /\ df[k].model = models_items[i]
    /\ subseries_cur \subseteq 1..Len(subseries_items)
    /\ models_cur \subseteq 1..Len(models_items)

\* Between the return of update_subseries and the next event handled, nothing
\* finer than the series is selected or offered.
C1_AfterSeriesChoice ==
    last_event = [handler |-> "update_subseries", selected |-> TRUE] =>
        /\ models_items = <<>>
        /\ models_cur = {}
        /\ subseries_cur = {}
        /\ series_cur # {}
        /\ selected_series_global = ListboxGet(series_items, series_cur)

\* C1: the options always belong to the stored series, and a series choice
\* has reset the finer levels when its handler returns.
C1_CascadeAtomic == C1_OptionsOfSeries /\ C1_AfterSeriesChoice

\* Series S2 has just been chosen while a fetch started under another series is
\* still running.
C1_Witness ==
    /\ last_event = [handler |-> "update_subseries", selected |-> TRUE]
    /\ subseries_items # <<>>
    /\ \E w \in 1..MaxWorkers :
          /\ workers[w].pc = "check"
          /\ workers[w].origin.series # selected_series_global

(***************************************************************************)
(* C2  A fetched image is drawn only while the selection that started its  *)
(* fetch is still the current one.  (The code draws unconditionally.)      *)
(***************************************************************************)
C2_NoStaleRender ==
    [][\A w \in 1..MaxWorkers :
          (workers[w].pc = "create" /\ workers'[w].pc = "keep")
              => workers[w].origin = CurrentSelection]_vars

(***************************************************************************)
(* C3  Original: of any two fetch_image calls with the same image_url that *)
(* have both got their image, only one issued a requests.get.              *)
(***************************************************************************)
HasImage(w) == workers[w].pc \in {"store", "delete", "create", "keep"}

\* C3 (original): two calls with one image_url issue at most one requests.get.
C3_ExactlyOneFetch ==
    \A w1, w2 \in 1..MaxWorkers :
        (w1 # w2 /\ HasImage(w1) /\ HasImage(w2) /\ workers[w1].url = workers[w2].url)
            => workers[w1].gets + workers[w2].gets <= 1

(***************************************************************************)
(* C3  Amended: a fetch_image call whose cache lookup runs after a call    *)
(* with the same image_url has stored its image is a cache hit: it returns *)
(* the stored image and never issues a requests.get; a call that misses    *)
(* issues exactly one.                                                     *)
(***************************************************************************)
C3_HitStep ==
    \A w \in 1..MaxWorkers :
        (workers[w].pc = "check" /\ workers'[w].pc # "check"
             /\ image_cache[workers[w].url] # NoImage)
        => /\ workers'[w].pc = "delete"
           /\ workers'[w].img = image_cache[workers[w].url]
           /\ workers'[w].gets = 0

C3_GetsCounted ==
    \A w \in 1..MaxWorkers :
        /\ workers[w].gets <= 1
        /\ HasImage(w) =>
              /\ workers[w].img.ref = workers[w].url
              /\ (workers[w].gets = 1) = (workers[w].img.by = w)

\* C3 (amended): a lookup that finds a stored image returns it and fetches
\* nothing; a call issues a requests.get only after a miss, and only once.
C3_HitAfterStore == [][C3_GetsCounted /\ C3_GetsCounted' /\ C3_HitStep]_vars

\* A second call for a url found the image the first call stored.
C3_Witness ==
    \E w \in 1..MaxWorkers :
        /\ workers[w].pc = "delete"
        /\ workers[w].gets = 0
        /\ workers[w].img.by \notin {0, w}
        /\ workers[workers[w].img.by].pc = "ended"

(***************************************************************************)
(* C4  When update_models returns after a subseries was chosen, the canvas *)
(* shows no image.  (The code never touches image_canvas there.)           *)
(***************************************************************************)
C4_SubseriesClearsCanvas == [][SubseriesChosen => canvas' = <<>>]_vars

(***************************************************************************)
(* C5  When the fetch or decode of an image fails, the canvas is left      *)
(* empty.  (The exception ends the thread before image_canvas.delete is    *)
(* reached, so the previous image stays; the handlers go on running.)      *)
(***************************************************************************)
C5_FailureClearsCanvas ==
    [][\A w \in 1..MaxWorkers :
          (workers[w].pc = "get" /\ workers'[w].pc = "ended")
              => canvas' = <<>>]_vars

(***************************************************************************)
(* C6  No statement executed by a worker thread changes what the canvas    *)
(* shows or the image reference it keeps: those changes happen in steps of *)
(* the UI thread.  (show_image, the thread's target, makes them itself.)   *)
(***************************************************************************)
C6_WorkerNeverDraws ==
    [][\A w \in 1..MaxWorkers :
          WorkerRan(w) => (canvas' = canvas /\ canvas_image' = canvas_image)]_vars

(***************************************************************************)
(* C7  A selection event that arrives with nothing selected in its listbox *)
(* changes nothing: stored series, option lists and their selections,      *)
(* canvas, status labels, image cache, and no thread is started.           *)
(***************************************************************************)
C7_EmptyEventNoop == [][EmptyEvent => UNCHANGED progVars]_vars

\* An empty models event was handled while an image was cached and drawn.
C7_Witness ==
    /\ last_event = [handler |-> "display_image", selected |-> FALSE]
    /\ models_items # <<>>
    /\ canvas # <<>>
    /\ \E u \in DOMAIN image_cache : image_cache[u] # NoImage

(***************************************************************************)
(* C8  The subseries list of a series S is the distinct subseries values   *)
(* of the rows whose series is S, without duplicates, ordered by first     *)
(* occurrence (empty when no row has series S); the series list is the     *)
(* distinct series values ordered by first occurrence.                     *)
(***************************************************************************)
\* the first row among `hit` whose column value (given by `col`) is x
FirstRow(hit, col, x) ==
    CHOOSE k \in hit : col[k] = x /\ \A l \in hit : col[l] = x => k <= l

IsFirstOccurrenceList(result, hit, col) ==
    /\ NoDuplicates(result)
    /\ Range(result) = { col[k] : k \in hit }
    /\ \A i, j \in 1..Len(result) :
           i < j => FirstRow(hit, col, result[i]) < FirstRow(hit, col, result[j])

\* C8: series list and subseries list are first-occurrence lists of their rows.
C8_SubseriesFirstOccurrence ==
    /\ IsFirstOccurrenceList(series_items, Rows, [k \in Rows |-> df[k].series])
    /\ q.op = "list_subseries" =>
           IsFirstOccurrenceList(q.result,
                                 { k \in Rows : df[k].series = q.series },
                                 [k \in Rows |-> df[k].subseries])

\* Three rows of one series, the first subseries repeated after the second.
C8_Witness ==
    /\ q.op = "list_subseries"
    /\ Len(q.result) = 2
    /\ Len(df) = 3
    /\ \A k \in Rows : df[k].series = q.series
    /\ df[1].subseries = df[3].subseries

(***************************************************************************)
(* C9  The model list of (S, Sub) is the distinct model names of the rows  *)
(* whose series is S and whose subseries is Sub, without duplicates,       *)
(* ordered by first occurrence, and empty when no row matches both.        *)
(***************************************************************************)
C9_ModelsFirstOccurrence ==
    q.op = "list_models" =>
        IsFirstOccurrenceList(q.result,
                              { k \in Rows : /\ df[k].series = q.series
                                             /\ df[k].subseries = q.subseries },
                              [k \in Rows |-> df[k].model])

\* Rows M2, M1, M2 of one (series, subseries), and a row of another series.
C9_Witness ==
    /\ q.op = "list_models"
    /\ q.result = <<"M2", "M1">>
    /\ Len(df) = 3
    /\ \E k \in Rows : df[k].series # q.series /\ df[k].subseries = q.subseries

(***************************************************************************)
(* C10  Original: when model M is chosen under series S and subseries Sub, *)
(* the year shown and the image_url given to the thread are those of a row *)
(* with series S, subseries Sub and model M (a blank year shown as 0).     *)
(***************************************************************************)
ShownYear(k) == IF csv[k].year = Blank THEN {YearText(0)}
                ELSE { YearText(v) : v \in csv[k].year }

\* the rows of the triple now selected that carry the year shown and the url
\* of the thread just started
TripleRows ==
    { k \in Rows :
        /\ df[k].series = CurrentSelection'.series
        /\ df[k].subseries = CurrentSelection'.subseries
        /\ df[k].model = CurrentSelection'.model
        /\ status_right' \in ShownYear(k)
        /\ \E w \in 1..MaxWorkers : /\ workers[w].pc = "idle"
                                    /\ workers'[w].pc = "check"
                                    /\ workers'[w].url = csv[k].url }

\* C10 (original): a model choice shows the year and fetches the url of a row of
\* the chosen (series, subseries, model).
C10_TripleResolved == [][ModelChosen => TripleRows # {}]_vars

(***************************************************************************)
(* C10  Amended: the same, provided the first row in load order whose      *)
(* model name is M has series S and subseries Sub (always so when M occurs *)
(* under one (series, subseries) only).                                    *)
(***************************************************************************)
FirstNamedIsOfTriple ==
    LET k == FirstRow(Rows, [r \in Rows |-> df[r].model], CurrentSelection'.model)
    IN /\ df[k].series = CurrentSelection'.series
       /\ df[k].subseries = CurrentSelection'.subseries

\* C10 (amended): so it is when the first row named M is a row of (S, Sub).
C10_TripleResolvedIfFirst ==
    [][(ModelChosen /\ FirstNamedIsOfTriple) => TripleRows # {}]_vars

\* A model with a blank Year cell was chosen: 0 is shown, its url is being fetched.
C10_Witness ==
    /\ last_event = [handler |-> "display_image", selected |-> TRUE]
    /\ status_right = YearText(0)
    /\ \E w \in 1..MaxWorkers :
          /\ workers[w].pc = "check"
          /\ workers[w].origin = CurrentSelection
          /\ \E k \in Rows : /\ csv[k].year = Blank
                             /\ csv[k].url = workers[w].url
                             /\ csv[k].model = workers[w].origin.model
                             /\ csv[k].series = workers[w].origin.series

(***************************************************************************)
(* Steps of SpecFit, named for C11 and C18                                 *)
(***************************************************************************)
Fitted == q.op = "fit"
max_width == q.canvas_w - 2 * image_padding
max_height == q.canvas_h - 2 * image_padding

(***************************************************************************)
(* C11  The size computed for an image w x h in a box W x H is             *)
(* (W, floor(h*W/w)) when w/W > h/H and (floor(w*H/h), H) otherwise.       *)
(* (max_width / (w / h) is rounded twice: for the image 9 x 7 in the box   *)
(* 9 x 8 it is 6.999999999999999 and int() gives 6, where floor(7*9/9) is  *)
(* 7.)                                                                     *)
(***************************************************************************)
C11_FloorFormula ==
    Fitted =>
        q.size = IF q.w * max_height > q.h * max_width
                 THEN [width |-> max_width, height |-> (q.h * max_width) \div q.w]
                 ELSE [width |-> (q.w * max_height) \div q.h, height |-> max_height]

(***************************************************************************)
(* C18  The size computed fits the box and touches it: 1 <= new_width <= W *)
(* and 1 <= new_height <= H, one of them with equality on the right.  (An  *)
(* image more than W times as wide as high, or H times as high as wide,    *)
(* gets a dimension of 0.)                                                 *)
(***************************************************************************)
C18_FitsBox ==
    Fitted =>
        /\ 1 <= q.size.width /\ q.size.width <= max_width
        /\ 1 <= q.size.height /\ q.size.height <= max_height
        /\ q.size.width = max_width \/ q.size.height = max_height

(***************************************************************************)
(* Steps of SpecCrawl, named for C12                                       *)
(***************************************************************************)
Crawled == q.op = "crawl" /\ q.pc = "done"

RECURSIVE CrawlOrder(_, _)
\* every page of the site from series page i on, as a crawl without failures
\* requests them
CrawlOrder(site, i) ==
    IF i > Len(site) THEN <<>>
    ELSE <<<<i>>>> \o [j \in 1..Len(site[i]) |-> <<i, j>>] \o CrawlOrder(site, i + 1)

UnderRetrievedSeries(page) == Len(page) = 1 \/ <<page[1]>> \in q.retrieved
RetrievedSubseries(page) ==
    Len(page) = 2 /\ page \in q.retrieved /\ <<page[1]>> \in q.retrieved

RECURSIVE RowsOf(_, _)
RowsOf(site, pages) ==
    IF pages = <<>> THEN <<>>
    ELSE parse_subseries_page(site, Head(pages)[1], Head(pages)[2])
             \o RowsOf(site, Tail(pages))

(***************************************************************************)
(* C12  Whatever series and subseries pages fail, the dataset written      *)
(* holds, in crawl order, exactly the rows of the subseries pages          *)
(* retrieved under a series page retrieved, and every series page and      *)
(* every subseries page of a retrieved series page was requested, in crawl *)
(* order, whether or not the page before it failed.                        *)
(***************************************************************************)
C12_FailureSkipsOwnBranch ==
    Crawled =>
        /\ q.csv = RowsOf(q.site, SelectSeq(CrawlOrder(q.site, 1), RetrievedSubseries))
        /\ q.requested = SelectSeq(CrawlOrder(q.site, 1), UnderRetrievedSeries)

\* Series page 1 failed and series page 2 was retrieved; its subseries page 1
\* failed and its subseries page 2 gave the only row written.
C12_Witness ==
    /\ Crawled
    /\ q.requested = << <<1>>, <<2>>, <<2, 1>>, <<2, 2>> >>
    /\ q.retrieved = { <<2>>, <<2, 2>> }
    /\ q.csv = << [series |-> 2, subseries |-> 2, figure |-> 1] >>

(***************************************************************************)
(* Steps of SpecName, named for C13                                        *)
(***************************************************************************)
Extracted == q.op = "extracted"

\* "(" dddd ")" stands at p..p+5 of the name
GroupAt(name, p) ==
    /\ p >= 1 /\ p + 5 <= Len(name)
    /\ <<name[p], name[p + 5]>> = <<"(", ")">>
    /\ { name[k] : k \in (p + 1)..(p + 4) } \subseteq Digits

Groups(name) == { p \in 1..Len(name) : GroupAt(name, p) }

\* t is str without the whitespace around it
IsStripped(t, str) ==
    /\ t # <<>> => t[1] \notin Whitespace /\ t[Len(t)] \notin Whitespace
    /\ \E a, b \in 0..Len(str) :
          /\ a + Len(t) + b = Len(str)
          /\ t = SubSeq(str, a + 1, a + Len(t))
          /\ \A k \in (1..a) \cup ((Len(str) - b + 1)..Len(str)) : str[k] \in Whitespace

(***************************************************************************)
(* C13  For a watch name holding a parenthesised group of exactly four     *)
(* digits, the year is the digits of the first such group and the cleaned  *)
(* name the text before it, stripped; for any other name the year is empty *)
(* and the cleaned name the stripped name.  "GA-100 (2012)" gives          *)
(* ("GA-100", "2012") and "DW-5600" gives ("DW-5600", "").                 *)
(***************************************************************************)
C13_YearAndCleanName ==
    Extracted =>
        /\ \A p \in Groups(q.watch_name) :
              (\A o \in Groups(q.watch_name) : p <= o) =>
                  /\ q.year = [k \in 1..4 |-> q.watch_name[p + k]]
                  /\ IsStripped(q.cleaned_name, SubSeq(q.watch_name, 1, p - 1))
        /\ Groups(q.watch_name) = {} =>
              /\ q.year = <<>>
              /\ IsStripped(q.cleaned_name, q.watch_name)
        /\ q.watch_name = GA100 =>
              /\ q.cleaned_name = <<"G", "A", "-", "1", "0", "0">>
              /\ q.year = <<"2", "0", "1", "2">>
        /\ q.watch_name = DW5600 => q.cleaned_name = DW5600 /\ q.year = <<>>

\* "GA (1999)(2012)": two groups, the first gives the year, and the blank
\* before it is stripped.
C13_Witness ==
    /\ Extracted
    /\ q.watch_name = <<"G", "A", " ", "(", "1", "9", "9", "9", ")",
                        "(", "2", "0", "1", "2", ")">>
    /\ q.year = <<"1", "9", "9", "9">>
    /\ q.cleaned_name = <<"G", "A">>

(***************************************************************************)
(* C14  The year shown and the url fetched for a chosen model name M are   *)
(* those of the first row in load order whose model name is M, also when   *)
(* several rows carry that name.                                           *)
(***************************************************************************)
FirstNamed(m) == FirstRow(Rows, [r \in Rows |-> df[r].model], m)
ModelJustChosen == last_event = [handler |-> "display_image", selected |-> TRUE]

C14_FirstNamedRecord ==
    /\ ModelJustChosen =>
           status_right = YearText(df[FirstNamed(CurrentSelection.model)].year)
    /\ \A w \in 1..MaxWorkers :
           workers[w].pc \notin {"idle", "ended"} =>
               workers[w].url = df[FirstNamed(workers[w].origin.model)].url

\* M1 was chosen under series B, the first row named M1 is a row of series A
\* with another year and another url: the year shown and the url being fetched
\* are those of the row of A.
C14_Witness ==
    /\ ModelJustChosen
    /\ CurrentSelection.series = "B"
    /\ \E k \in Rows :
          /\ df[k].model = CurrentSelection.model
          /\ df[k].series = "B"
          /\ k > FirstNamed(CurrentSelection.model)
          /\ YearText(df[k].year) # status_right
          /\ \E w \in 1..MaxWorkers : /\ workers[w].pc = "get"
                                      /\ workers[w].origin = CurrentSelection
                                      /\ workers[w].url # df[k].url

(***************************************************************************)
(* C15  Once an image_ref is stored, the key stays in the cache and keeps  *)
(* the entry of its first resolution; only fetch_image writes the cache.   *)
(* (Two threads that both missed the cache for one url both store: the     *)
(* second store replaces the image object of the first.)                   *)
(***************************************************************************)
Cached(u) == image_cache[u] # NoImage
StoredBy(w, u) ==
    /\ workers[w].pc = "store" /\ workers'[w].pc = "delete"
    /\ workers[w].url = u
    /\ image_cache'[u] = workers[w].img

\* C15 (original): entries never change once stored.
C15_EntriesStable ==
    [][\A u \in DOMAIN image_cache :
          /\ Cached(u) => image_cache'[u] = image_cache[u]
          /\ image_cache'[u] # image_cache[u] => \E w \in 1..MaxWorkers : StoredBy(w, u)]_vars

(***************************************************************************)
(* C15  Amended: once an image_ref is stored, the key stays in the cache   *)
(* and maps to an image fetched for that ref; an entry changes only by the *)
(* store of a fetch_image call for that ref which fetched the image        *)
(* itself (the last writer wins); only fetch_image writes the cache.       *)
(***************************************************************************)
C15_CacheGrows ==
    [][\A u \in DOMAIN image_cache :
          /\ Cached(u) => image_cache'[u] # NoImage
          /\ image_cache'[u] # NoImage => image_cache'[u].ref = u
          /\ image_cache'[u] # image_cache[u] =>
                 \E w \in 1..MaxWorkers : StoredBy(w, u) /\ workers[w].gets = 1]_vars

\* The image kept on the canvas was fetched and stored by its thread, and the
\* cache now holds another image object for the same url: a second store has
\* replaced the first, and the key is still there.
C15_Witness ==
    \E u \in DOMAIN image_cache :
        /\ Cached(u)
        /\ canvas_image.ref = u
        /\ canvas_image # image_cache[u]

(***************************************************************************)
(* C16  A model can be chosen only once a subseries has been chosen after  *)
(* the last series choice: whenever the model options are not empty, a     *)
(* series is stored and a subseries is selected, and the options are the   *)
(* model list of that series and that subseries; the options become        *)
(* non-empty by a subseries choice only (the selection of the subseries    *)
(* list is set by a subseries choice and removed by a series choice only), *)
(* and a series choice empties them, so that no model can be chosen until  *)
(* a subseries is chosen again.                                            *)
(***************************************************************************)
SeriesJustChosen == last_event = [handler |-> "update_subseries", selected |-> TRUE]
SubseriesJustChosen == last_event = [handler |-> "update_models", selected |-> TRUE]

cascade == <<selected_series_global, subseries_items, subseries_cur, models_items>>

ModelOptionsOfSubseries ==
    models_items # <<>> =>
        /\ selected_series_global # None
        /\ subseries_cur # {}
        /\ models_items = ListModels(df, selected_series_global,
                                     ListboxGet(subseries_items, subseries_cur))

\* (a step that leaves the stored series, the subseries list, its selection
\* and the model options as they are leaves ModelOptionsOfSubseries as it is)
C16_ModelNeedsSubseries ==
    [][/\ cascade' # cascade => ModelOptionsOfSubseries'
       /\ SeriesJustChosen' => EventSelections(models_items', models_cur') = {{}}
       /\ ModelJustChosen' => subseries_cur' # {} /\ models_items' # <<>>
       /\ models_items' # models_items =>
              IF models_items' = <<>> THEN SeriesJustChosen' ELSE SubseriesJustChosen'
       /\ subseries_cur' # subseries_cur =>
              IF subseries_cur' = {} THEN SeriesJustChosen' ELSE SubseriesJustChosen']_vars

\* The second of two models listed for the series and the subseries selected
\* has been chosen.
C16_Witness ==
    /\ ModelJustChosen
    /\ models_cur = {2}
    /\ selected_series_global # None /\ subseries_cur # {}
    /\ Len(ListModels(df, selected_series_global,
                      ListboxGet(subseries_items, subseries_cur))) = 2

(***************************************************************************)
(* C17  The status bar is written by the handlers themselves: once a       *)
(* series or a subseries choice has been handled, the left label counts    *)
(* the list just filled and the right label is blank; once a model choice  *)
(* has been handled, the right label shows the year resolved for the       *)
(* model, whatever the worker thread has done so far, and the left label   *)
(* still counts the models.                                                *)
(***************************************************************************)
C17_StatusSynchronous ==
    /\ SeriesJustChosen =>
           /\ status_left = CountText(Len(subseries_items), "subseries.")
           /\ status_right = NoText
    /\ SubseriesJustChosen =>
           /\ status_left = CountText(Len(models_items), "models.")
           /\ status_right = NoText
    /\ ModelJustChosen =>
           /\ status_right = YearText(ResolveModel(df, CurrentSelection.model).year)
           /\ status_left = CountText(Len(models_items), "models.")

\* A model of 2001 has been chosen from a list of two; its thread has not yet
\* looked into the cache and the status bar reads "2 models." and "2001".
C17_Witness ==
    /\ ModelJustChosen
    /\ status_left = CountText(2, "models.")
    /\ status_right = YearText(2001)
    /\ \A w \in 1..MaxWorkers : workers[w].pc \in {"idle", "check"}
    /\ \E w \in 1..MaxWorkers : workers[w].pc = "check"
    /\ canvas = <<>>

(***************************************************************************)
(* C19  A fetch that fails ends its thread and nothing else: the cache is  *)
(* left as it is and no fetch is started in its place; a thread starts     *)
(* only by a model choice, for the url of the model chosen; and every key  *)
(* of the cache is a url of the catalog, stored by a thread that fetched   *)
(* it.                                                                     *)
(***************************************************************************)
Failed(w) == workers[w].pc = "get" /\ workers'[w].pc \notin {"get", "store"}
Started(w) == workers[w].pc = "idle" /\ workers'[w].pc # "idle"

C19_FailureStoresNothing ==
    [][\A w \in 1..MaxWorkers :
          /\ Failed(w) =>
                 /\ workers' = [workers EXCEPT ![w] = EndedWorker]
                 /\ image_cache' = image_cache
          /\ Started(w) =>
                 /\ ModelJustChosen'
                 /\ workers'[w].pc = "check"
                 /\ workers'[w].url = ResolveModel(df, CurrentSelection'.model).url
          /\ workers'[w].pc = "get" => workers[w].pc \in {"check", "get"}
          /\ \A u \in DOMAIN image_cache :
                 image_cache'[u] # image_cache[u] =>
                     /\ u \in CatalogUrls(df)
                     /\ \E v \in 1..MaxWorkers :
                           /\ workers[v].pc = "store" /\ workers[v].gets = 1
                           /\ image_cache'[u] = [ref |-> u, by |-> v]]_vars

\* The first thread has failed: it has ended, nothing is cached and nothing
\* was drawn; a model was chosen again and the second thread is fetching.
C19_Witness ==
    /\ workers[1].pc = "ended"
    /\ workers[2].pc = "get"
    /\ \A u \in DOMAIN image_cache : ~Cached(u)
    /\ canvas_image = NoImage
    /\ ModelJustChosen

====
